---------------------------- MODULE Spec2Model ----------------------------
(***************************************************************************)
(* A model of bazi_trading_system.py: the BaziCalculator (date -> pillars  *)
(* -> element counts), the TradingStrategy (two element-count vectors ->   *)
(* signal), the BacktestingEngine.run_backtest loop (cash, positions,      *)
(* trade log, equity curve) and BacktestingEngine.calculate_metrics.       *)
(*                                                                         *)
(* Money is modelled in whole currency units (integers); ratios that the   *)
(* code keeps as floats are exact rationals <<numerator, denominator>>.    *)
(* A confidence is kept in tenths (0.6 is 6), which is exact for every     *)
(* value the decision rule can produce (score/5 and 0.5).                  *)
(***************************************************************************)
EXTENDS Integers, Sequences, FiniteSets, TLC

(***************************************************************************)
(* Small helpers.                                                          *)
(***************************************************************************)
Min(a, b) == IF a < b THEN a ELSE b

Abs(a) == IF a < 0 THEN -a ELSE a

RECURSIVE GCD(_, _)
GCD(a, b) == IF b = 0 THEN a ELSE GCD(b, a % b)

\* A float ratio n/d as an exact rational in lowest terms, positive denominator.
\* d = 0 has no float value the sequential code survives: kept as <<n, 0>>.
Rat(n, d) ==
    IF d = 0 THEN <<n, 0>>
    ELSE LET g == GCD(Abs(n), Abs(d))
             s == IF d < 0 THEN -1 ELSE 1
         IN  <<s * (n \div g), s * (d \div g)>>

RatAdd(p, q) == Rat(p[1] * q[2] + q[1] * p[2], p[2] * q[2])

RatZero == <<0, 1>>

(***************************************************************************)
(* BaziCalculator.__init__: stems, branches, their elements, the relation  *)
(* table.  Names are the pinyin of the source's characters:                *)
(*   stems     jia yi bing ding wu ji geng xin ren gui                     *)
(*   branches  zi chou yin mao chen si wu wei shen you xu hai              *)
(*   elements  mu (wood) huo (fire) tu (earth) jin (metal) shui (water)    *)
(*   relations sheng (generates) ke (overcomes) bei_sheng (generated by)   *)
(*             bei_ke (overcome by) tong (same) wu_none (none)             *)
(***************************************************************************)
tiangan == <<"jia", "yi", "bing", "ding", "wu", "ji", "geng", "xin", "ren", "gui">>

dizhi == <<"zi", "chou", "yin", "mao", "chen", "si", "wu", "wei", "shen", "you", "xu", "hai">>

wuxing_tiangan ==
    [jia |-> "mu", yi |-> "mu", bing |-> "huo", ding |-> "huo", wu |-> "tu",
     ji |-> "tu", geng |-> "jin", xin |-> "jin", ren |-> "shui", gui |-> "shui"]

\* The bug of a branch missing from the table.
wuxing_dizhi_incomplete ==
    [zi |-> "shui", chou |-> "tu", yin |-> "mu", mao |-> "mu", chen |-> "tu",
     si |-> "huo", wu |-> "huo", wei |-> "tu", shen |-> "jin", you |-> "jin",
     xu |-> "tu"]

wuxing_dizhi ==
    [zi |-> "shui", chou |-> "tu", yin |-> "mu", mao |-> "mu", chen |-> "tu",
     si |-> "huo", wu |-> "huo", wei |-> "tu", shen |-> "jin", you |-> "jin",
     xu |-> "tu", hai |-> "shui"]

\* The bug of overcoming the element three steps ahead: ke and bei_ke exchanged
\* in every entry.
wuxing_shengke_ke_shifted ==
    [mu   |-> [sheng |-> "huo",  ke |-> "jin",  bei_sheng |-> "shui", bei_ke |-> "tu"],
     huo  |-> [sheng |-> "tu",   ke |-> "shui", bei_sheng |-> "mu",   bei_ke |-> "jin"],
     tu   |-> [sheng |-> "jin",  ke |-> "mu",   bei_sheng |-> "huo",  bei_ke |-> "shui"],
     jin  |-> [sheng |-> "shui", ke |-> "huo",  bei_sheng |-> "tu",   bei_ke |-> "mu"],
     shui |-> [sheng |-> "mu",   ke |-> "tu",   bei_sheng |-> "jin",  bei_ke |-> "huo"]]

\* The bug of an entry whose two passive relations are exchanged.
wuxing_shengke_inconsistent ==
    [mu   |-> [sheng |-> "huo",  ke |-> "tu",   bei_sheng |-> "jin",  bei_ke |-> "shui"],
     huo  |-> [sheng |-> "tu",   ke |-> "jin",  bei_sheng |-> "mu",   bei_ke |-> "shui"],
     tu   |-> [sheng |-> "jin",  ke |-> "shui", bei_sheng |-> "huo",  bei_ke |-> "mu"],
     jin  |-> [sheng |-> "shui", ke |-> "mu",   bei_sheng |-> "tu",   bei_ke |-> "huo"],
     shui |-> [sheng |-> "mu",   ke |-> "huo",  bei_sheng |-> "jin",  bei_ke |-> "tu"]]

wuxing_shengke ==
    [mu   |-> [sheng |-> "huo",  ke |-> "tu",   bei_sheng |-> "shui", bei_ke |-> "jin"],
     huo  |-> [sheng |-> "tu",   ke |-> "jin",  bei_sheng |-> "mu",   bei_ke |-> "shui"],
     tu   |-> [sheng |-> "jin",  ke |-> "shui", bei_sheng |-> "huo",  bei_ke |-> "mu"],
     jin  |-> [sheng |-> "shui", ke |-> "mu",   bei_sheng |-> "tu",   bei_ke |-> "huo"],
     shui |-> [sheng |-> "mu",   ke |-> "huo",  bei_sheng |-> "jin",  bei_ke |-> "tu"]]

\* The fixed iteration order ['木', '火', '土', '金', '水'] of get_trading_signal.
WuxingOrder == <<"mu", "huo", "tu", "jin", "shui">>

Wuxing == {WuxingOrder[i] : i \in 1..Len(WuxingOrder)}

base_year == 1900

\* The bug of counting the cycle from year 0.
year_indices_unbased(year) ==
    LET offset == year % 60
    IN  [tiangan_index |-> offset % 10, dizhi_index |-> offset % 12]

\* Lines 58-61: the year's offset in the 60-year cycle and its two list indices
\* (0-based, as in the source; % is Python's, never negative).
year_indices(year) ==
    LET offset == (year - base_year) % 60
    IN  [tiangan_index |-> offset % 10, dizhi_index |-> offset % 12]

\* get_tiangan_dizhi(year): the year's stem and branch.
get_tiangan_dizhi(year) ==
    <<tiangan[year_indices(year).tiangan_index + 1],
      dizhi[year_indices(year).dizhi_index + 1]>>

TgKeys == {"year_tg", "month_tg", "day_tg", "hour_tg"}

DzKeys == {"year_dz", "month_dz", "day_dz", "hour_dz"}

\* Lines 67-77: the eight list indices calculate_bazi computes (0-based).
bazi_indices(date) ==
    [year_tg  |-> year_indices(date.year).tiangan_index,
     year_dz  |-> year_indices(date.year).dizhi_index,
     month_tg |-> (date.month - 1) % 10,
     month_dz |-> (date.month - 1) % 12,
     day_tg   |-> (date.day - 1) % 10,
     day_dz   |-> (date.day - 1) % 12,
     hour_tg  |-> (date.hour \div 2) % 10,
     hour_dz  |-> (date.hour \div 2) % 12]

\* calculate_bazi(date): date is a datetime [year, month, day, hour].
calculate_bazi(date) ==
    LET yp == get_tiangan_dizhi(date.year)
        ix == bazi_indices(date)
    IN  [year_tg  |-> yp[1],
         year_dz  |-> yp[2],
         month_tg |-> tiangan[ix.month_tg + 1],
         month_dz |-> dizhi[ix.month_dz + 1],
         day_tg   |-> tiangan[ix.day_tg + 1],
         day_dz   |-> dizhi[ix.day_dz + 1],
         hour_tg  |-> tiangan[ix.hour_tg + 1],
         hour_dz  |-> dizhi[ix.hour_dz + 1]]

\* analyze_wuxing_strength(bazi): how many of the 8 symbols map to each element.
analyze_wuxing_strength(bazi) ==
    [w \in Wuxing |->
        Cardinality({k \in TgKeys \cap DOMAIN bazi :
                        /\ bazi[k] \in DOMAIN wuxing_tiangan
                        /\ wuxing_tiangan[bazi[k]] = w})
      + Cardinality({k \in DzKeys \cap DOMAIN bazi :
                        /\ bazi[k] \in DOMAIN wuxing_dizhi
                        /\ wuxing_dizhi[bazi[k]] = w})]

\* The bug of a chain without its two passive branches.
get_wuxing_relationship_active_only(wuxing1, wuxing2) ==
    IF wuxing1 = wuxing2 THEN "tong"
    ELSE IF wuxing_shengke[wuxing1].sheng = wuxing2 THEN "sheng"
    ELSE IF wuxing_shengke[wuxing1].ke = wuxing2 THEN "ke"
    ELSE "wu_none"

\* get_wuxing_relationship(wuxing1, wuxing2): the if/elif chain, in its order.
get_wuxing_relationship(wuxing1, wuxing2) ==
    IF wuxing1 = wuxing2 THEN "tong"
    ELSE IF wuxing_shengke[wuxing1].sheng = wuxing2 THEN "sheng"
    ELSE IF wuxing_shengke[wuxing1].ke = wuxing2 THEN "ke"
    ELSE IF wuxing_shengke[wuxing1].bei_sheng = wuxing2 THEN "bei_sheng"
    ELSE IF wuxing_shengke[wuxing1].bei_ke = wuxing2 THEN "bei_ke"
    ELSE "wu_none"

(***************************************************************************)
(* Calendar: datetime - timedelta(days=1) in the proleptic Gregorian       *)
(* calendar of Python's datetime.                                          *)
(***************************************************************************)
IsLeap(y) == (y % 4 = 0) /\ ((y % 100 # 0) \/ (y % 400 = 0))

DaysInMonth(y, m) ==
    IF m = 2 THEN (IF IsLeap(y) THEN 29 ELSE 28)
    ELSE IF m \in {4, 6, 9, 11} THEN 30 ELSE 31

PrevDay(date) ==
    IF date.day > 1 THEN [date EXCEPT !.day = date.day - 1]
    ELSE IF date.month > 1
         THEN [date EXCEPT !.month = date.month - 1,
                           !.day = DaysInMonth(date.year, date.month - 1)]
         ELSE [date EXCEPT !.year = date.year - 1, !.month = 12, !.day = 31]

\* datetime.combine(date, datetime.min.time()): midnight of the date.
Midnight(date) == [year |-> date.year, month |-> date.month, day |-> date.day, hour |-> 0]

DateLess(a, b) ==
    \/ a.year < b.year
    \/ a.year = b.year /\ a.month < b.month
    \/ a.year = b.year /\ a.month = b.month /\ a.day < b.day

\* sorted(list(S)) for a set S of dates.
RECURSIVE SortedDates(_)
SortedDates(S) ==
    IF S = {} THEN <<>>
    ELSE LET m == CHOOSE x \in S : \A y \in S : ~DateLess(y, x)
         IN  <<m>> \o SortedDates(S \ {m})

(***************************************************************************)
(* TradingStrategy.get_trading_signal                                      *)
(***************************************************************************)
\* The scoring loops: the outer loop over wuxing, the inner over target_wuxing,
\* both in WuxingOrder; acc carries signal_strength and signal_reason.
\* The bug of scoring an element that is merely not weaker.
Hit_not_weaker(current_wuxing, symbol_wuxing, wuxing, target_wuxing) ==
    /\ current_wuxing[wuxing] >= symbol_wuxing[wuxing]
    /\ wuxing # target_wuxing
    /\ get_wuxing_relationship(wuxing, target_wuxing) = "sheng"
    /\ symbol_wuxing[target_wuxing] > 0

\* The bug of scoring the overcoming pairs as well.
Hit_sheng_or_ke(current_wuxing, symbol_wuxing, wuxing, target_wuxing) ==
    /\ current_wuxing[wuxing] > symbol_wuxing[wuxing]
    /\ wuxing # target_wuxing
    /\ get_wuxing_relationship(wuxing, target_wuxing) \in {"sheng", "ke"}
    /\ symbol_wuxing[target_wuxing] > 0

\* Lines 153-158: the tests under which the pair (wuxing, target_wuxing) scores.
Hit(current_wuxing, symbol_wuxing, wuxing, target_wuxing) ==
    /\ current_wuxing[wuxing] > symbol_wuxing[wuxing]
    /\ wuxing # target_wuxing
    /\ get_wuxing_relationship(wuxing, target_wuxing) = "sheng"
    /\ symbol_wuxing[target_wuxing] > 0

\* A scoring that also takes one off for every overcoming pair.
RECURSIVE ScoreLoop_symmetric(_, _, _, _, _)
ScoreLoop_symmetric(current_wuxing, symbol_wuxing, i, j, acc) ==
    IF i > Len(WuxingOrder) THEN acc
    ELSE IF j > Len(WuxingOrder)
         THEN ScoreLoop_symmetric(current_wuxing, symbol_wuxing, i + 1, 1, acc)
    ELSE LET wuxing == WuxingOrder[i]
             target_wuxing == WuxingOrder[j]
             stronger == current_wuxing[wuxing] > symbol_wuxing[wuxing]
             present  == symbol_wuxing[target_wuxing] > 0
             relationship == get_wuxing_relationship(wuxing, target_wuxing)
         IN  ScoreLoop_symmetric(current_wuxing, symbol_wuxing, i, j + 1,
                 IF stronger /\ present /\ relationship = "sheng"
                 THEN [strength |-> acc.strength + 1,
                       reason   |-> Append(acc.reason, <<wuxing, target_wuxing>>)]
                 ELSE IF stronger /\ present /\ relationship = "ke"
                 THEN [acc EXCEPT !.strength = @ - 1]
                 ELSE acc)

RECURSIVE ScoreLoop(_, _, _, _, _)
ScoreLoop(current_wuxing, symbol_wuxing, i, j, acc) ==
    IF i > Len(WuxingOrder) THEN acc
    ELSE IF j > Len(WuxingOrder)
         THEN ScoreLoop(current_wuxing, symbol_wuxing, i + 1, 1, acc)
    ELSE LET wuxing == WuxingOrder[i]
             target_wuxing == WuxingOrder[j]
             hit == Hit(current_wuxing, symbol_wuxing, wuxing, target_wuxing)
         IN  ScoreLoop(current_wuxing, symbol_wuxing, i, j + 1,
                       IF hit
                       THEN [strength |-> acc.strength + 1,
                             reason   |-> Append(acc.reason, <<wuxing, target_wuxing>>)]
                       ELSE acc)

\* The bug of thresholds of 2.
Decide_from_two(signal_strength) ==
    IF signal_strength >= 2
    THEN [signal |-> "BUY", confidence |-> Min(2 * signal_strength, 10)]
    ELSE IF signal_strength <= -2
    THEN [signal |-> "SELL", confidence |-> Min(2 * Abs(signal_strength), 10)]
    ELSE [signal |-> "HOLD", confidence |-> 5]

\* The bug of strict thresholds.
Decide_strict(signal_strength) ==
    IF signal_strength > 3
    THEN [signal |-> "BUY", confidence |-> Min(2 * signal_strength, 10)]
    ELSE IF signal_strength < -3
    THEN [signal |-> "SELL", confidence |-> Min(2 * Abs(signal_strength), 10)]
    ELSE [signal |-> "HOLD", confidence |-> 5]

\* Lines 162-171: the decision rule on signal_strength.
Decide(signal_strength) ==
    IF signal_strength >= 3
    THEN [signal |-> "BUY", confidence |-> Min(2 * signal_strength, 10)]
    ELSE IF signal_strength <= -3
    THEN [signal |-> "SELL", confidence |-> Min(2 * Abs(signal_strength), 10)]
    ELSE [signal |-> "HOLD", confidence |-> 5]

\* The bug of putting each new reason in front of the list.
Evaluate_reasons_in_front(current_wuxing, symbol_wuxing) ==
    LET acc == ScoreLoop(current_wuxing, symbol_wuxing, 1, 1,
                         [strength |-> 0, reason |-> <<>>])
        d   == Decide(acc.strength)
    IN  [signal         |-> d.signal,
         confidence     |-> d.confidence,
         strength       |-> acc.strength,
         reason         |-> [k \in 1..Len(acc.reason) |->
                                acc.reason[Len(acc.reason) + 1 - k]],
         current_wuxing |-> current_wuxing,
         symbol_wuxing  |-> symbol_wuxing]

\* evaluate: the scoring and the decision on two element-count vectors.
Evaluate(current_wuxing, symbol_wuxing) ==
    LET acc == ScoreLoop(current_wuxing, symbol_wuxing, 1, 1,
                         [strength |-> 0, reason |-> <<>>])
        d   == Decide(acc.strength)
    IN  [signal         |-> d.signal,
         confidence     |-> d.confidence,
         strength       |-> acc.strength,
         reason         |-> acc.reason,
         current_wuxing |-> current_wuxing,
         symbol_wuxing  |-> symbol_wuxing]

\* The bug of a comparison day that depends on the symbol.
get_trading_signal_by_symbol(symbol, date) ==
    LET current_wuxing == analyze_wuxing_strength(calculate_bazi(date))
        symbol_day     == IF symbol = "A" THEN PrevDay(date) ELSE PrevDay(PrevDay(date))
        symbol_wuxing  == analyze_wuxing_strength(calculate_bazi(symbol_day))
    IN  Evaluate(current_wuxing, symbol_wuxing)

\* get_trading_signal(symbol, date, price_data): date is a datetime; symbol and
\* price_data are not read.
get_trading_signal(symbol, date) ==
    LET current_bazi   == calculate_bazi(date)
        current_wuxing == analyze_wuxing_strength(current_bazi)
        symbol_bazi    == calculate_bazi(PrevDay(date))
        symbol_wuxing  == analyze_wuxing_strength(symbol_bazi)
    IN  Evaluate(current_wuxing, symbol_wuxing)


(***************************************************************************)
(* The inputs of a backtest and the engine's state.                        *)
(***************************************************************************)
\* BacktestingEngine.__init__(initial_capital = 100000).
initial_capital == 100000

\* Bound: how many times run_backtest is called on the one engine instance.
MaxRuns == 2

\* Bound: the same, for the runs with a substituted strategy.
MaxRunsAnyStrategy == 1

Symbols == {"A", "B"}

\* The symbol lists handed to run_backtest.
SymbolLists == {<<"A", "B">>, <<"B", "A">>}

\* The calendar dates price bars may carry, as datetime.date values.
D1 == [year |-> 1986, month |-> 1, day |-> 1]

D2 == [year |-> 1986, month |-> 1, day |-> 2]

D3 == [year |-> 2046, month |-> 1, day |-> 1]

DateSet == {D1, D2, D3}

\* The close prices a bar may carry.
Prices == {100, 7000}

\* A price series: the 'Close' column keyed by the bar's date; the empty
\* function is the empty DataFrame (no bars, or a failed download).
Series == UNION {[D -> Prices] : D \in SUBSET DateSet}

\* What a substituted strategy answers (the fields run_backtest reads).
StubSignals ==
    {[signal |-> "BUY", confidence |-> 6],
     [signal |-> "SELL", confidence |-> 6],
     [signal |-> "HOLD", confidence |-> 5]}

VARIABLES
    raw_data,         \* symbol -> the series get_stock_data returns for it
    strategy,         \* self.strategy: the bazi TradingStrategy or a stub table
    budget,           \* calls of run_backtest the caller will still make
    phase,            \* "idle" (no call in progress), "loop" (inside the date loop)
                      \* or "raised" (the call ended with an exception)
    symbols,          \* the symbols argument of the call
    data_dict,        \* symbol -> series, non-empty series only
    all_dates,        \* the sorted distinct dates
    di,               \* position of the date loop in all_dates (1-based)
    si,               \* position of the symbol loop in symbols (1-based)
    daily_returns,    \* the per-date accumulator, a rational
    current_capital,  \* cash
    positions,        \* symbol -> [shares, entry_price, entry_date]
    results,          \* the results dict being built
    returned,         \* the calls completed so far: [symbols, result] each
    metrics_arg,      \* the results dict handed to calculate_metrics
    metrics_done,     \* calculate_metrics has returned
    metrics,          \* the mapping calculate_metrics returned
    call,             \* a call of one of the strategy's functions: its name and arguments
    ret               \* what that call returned, once it has

vars == <<raw_data, strategy, budget, phase, symbols, data_dict, all_dates, di, si,
          daily_returns, current_capital, positions, results, returned,
          metrics_arg, metrics_done, metrics, call, ret>>

\* What no step of run_backtest changes.
inputs == <<raw_data, strategy, metrics_arg, metrics_done, metrics, call, ret>>

\* The state of run_backtest and of its caller.
run_vars == <<budget, phase, symbols, data_dict, all_dates, di, si, daily_returns,
              current_capital, positions, results, returned>>

EmptyDict == <<>>

\* dict[key] = value and del dict[key].
DictSet(d, k, v) == [x \in (DOMAIN d) \cup {k} |-> IF x = k THEN v ELSE d[x]]

DictDel(d, k) == [x \in (DOMAIN d) \ {k} |-> d[x]]

\* int(n / d) for d > 0: truncation toward zero.
Trunc(n, d) == IF n >= 0 THEN n \div d ELSE -((-n) \div d)

\* The bug of keeping the empty series too.
get_multiple_symbols_data_keep_empty(syms) ==
    [s \in {syms[i] : i \in 1..Len(syms)} |-> raw_data[s]]

\* DataProcessor.get_multiple_symbols_data: the requested symbols whose series
\* is not empty.
get_multiple_symbols_data(syms) ==
    LET wanted == {syms[i] : i \in 1..Len(syms)}
    IN  [s \in {x \in wanted : raw_data[x] # EmptyDict} |-> raw_data[s]]

\* get_trading_signal is a pure function: its value for every symbol and date
\* a bar may carry, computed once.
BaziSignals ==
    [s \in Symbols |-> [d \in DateSet |-> get_trading_signal(s, Midnight(d))]]

\* self.strategy.get_trading_signal(symbol, date_obj, data)
StrategySignal(symbol, date) ==
    IF strategy.kind = "bazi"
    THEN BaziSignals[symbol][date]
    ELSE strategy.table[date]

InitRun ==
    /\ phase = "idle"
    /\ symbols = <<>>
    /\ data_dict = EmptyDict
    /\ all_dates = <<>>
    /\ di = 1
    /\ si = 1
    /\ daily_returns = RatZero
    /\ current_capital = initial_capital
    /\ positions = EmptyDict
    /\ results = EmptyDict
    /\ returned = <<>>

\* calculate_metrics is not called.
NoMetrics ==
    /\ metrics_arg = EmptyDict
    /\ metrics_done = FALSE
    /\ metrics = EmptyDict

\* No call of a strategy function is under way.
NoCall ==
    /\ call = [fn |-> "none"]
    /\ ret = [done |-> FALSE]

\* The engine as constructed: self.strategy = TradingStrategy(BaziCalculator()).
Init ==
    /\ raw_data \in [Symbols -> Series]
    /\ strategy = [kind |-> "bazi", table |-> EmptyDict]
    /\ budget = MaxRuns
    /\ InitRun
    /\ NoMetrics
    /\ NoCall

\* The strategies self.strategy may hold: the bazi one, or a stub answering by date.
Strategies ==
    {[kind |-> "bazi", table |-> EmptyDict]}
        \cup {[kind |-> "stub", table |-> t] : t \in [DateSet -> StubSignals]}

\* The engine with any of the strategies in place, called MaxRunsAnyStrategy times.
InitAnyStrategy ==
    /\ raw_data \in [Symbols -> Series]
    /\ strategy \in Strategies
    /\ budget = MaxRunsAnyStrategy
    /\ InitRun
    /\ NoMetrics
    /\ NoCall

(***************************************************************************)
(* run_backtest, one action per step of its loops.                         *)
(***************************************************************************)
\* Lines 252-259: the results dict as initialised.
InitialResults ==
    [portfolio_value |-> <<initial_capital>>,
     returns         |-> <<RatZero>>,
     positions       |-> EmptyDict,
     trades          |-> <<>>,
     daily_returns   |-> <<>>,
     dates           |-> <<>>]

\* The bug of keeping the positions on the engine from call to call.
StartPositions_kept(prev_positions) == prev_positions

\* The bug of keeping the cash on the engine from call to call.
StartCapital_kept(prev_capital) == prev_capital

\* Lines 261-262: current_capital and positions are locals, set afresh by every
\* call; prev_capital and prev_positions are what the previous call left.
StartCapital(prev_capital) == initial_capital

StartPositions(prev_positions) == EmptyDict

\* The bug of walking the dates latest first.
AllDates_descending(dd) ==
    LET s == SortedDates(UNION {DOMAIN dd[x] : x \in DOMAIN dd})
    IN  [k \in 1..Len(s) |-> s[Len(s) + 1 - k]]

\* The bug of taking the dates of one series only.
AllDates_one_series(dd) == SortedDates(DOMAIN dd[CHOOSE s \in DOMAIN dd : TRUE])

\* Lines 265-269: the sorted distinct dates of all the series of dd.
AllDates(dd) == SortedDates(UNION {DOMAIN dd[s] : s \in DOMAIN dd})

\* Lines 245-269: load the data; return the error or set up the run.
RunBacktest(syms) ==
    /\ phase = "idle"
    /\ budget > 0
    /\ budget' = budget - 1
    /\ symbols' = syms
    /\ LET dd == get_multiple_symbols_data(syms)
       IN  /\ data_dict' = dd
           /\ IF dd = EmptyDict
              THEN /\ returned' = Append(returned,
                                     [symbols |-> syms, result |-> [error |-> "no data"]])
                   /\ UNCHANGED <<phase, all_dates, di, si, daily_returns,
                                  current_capital, positions, results>>
              ELSE /\ results' = InitialResults
                   /\ current_capital' = StartCapital(current_capital)
                   /\ positions' = StartPositions(positions)
                   /\ all_dates' = AllDates(dd)
                   /\ di' = 1
                   /\ si' = 1
                   /\ daily_returns' = RatZero
                   /\ phase' = "loop"
                   /\ UNCHANGED returned
    /\ UNCHANGED inputs

\* The bug of testing only that the symbol has data, not the date.
HasBar_symbol_only(dd, symbol, date) == symbol \in DOMAIN dd

\* Lines 277-282: the symbol has data and a bar on the date.
HasBar(dd, symbol, date) ==
    /\ symbol \in DOMAIN dd
    /\ date \in DOMAIN dd[symbol]

\* Line 284: data.loc[data.index.date == date, 'Close'] has a row, so that
\* .iloc[0] does not raise IndexError.
HasRow(dd, symbol, date) ==
    /\ symbol \in DOMAIN dd
    /\ date \in DOMAIN dd[symbol]

\* The bug of buying again into an open position.
BuyCond_pyramiding(signal_info, symbol, pos) == signal_info.signal = "BUY"

\* Line 290: the BUY branch is taken.
BuyCond(signal_info, symbol, pos) ==
    signal_info.signal = "BUY" /\ symbol \notin DOMAIN pos

\* The bug of rounding the share count up.
BuyShares_rounded_up(capital, confidence, current_price) ==
    (capital * confidence + 100 * current_price - 1) \div (100 * current_price)

\* The bug of leaving out the 0.1 position-size fraction.
BuyShares_no_fraction(capital, confidence, current_price) ==
    Trunc(capital * confidence, 10 * current_price)

\* Line 292: int(current_capital * confidence * 0.1 / current_price), the
\* confidence in tenths.
BuyShares(capital, confidence, current_price) ==
    Trunc(capital * confidence, 100 * current_price)

\* The bug of a commission on top of the cost.
Cost_with_commission(shares, current_price) == shares * current_price + 1

\* The bug of not debiting the cost.
Cost_none(shares, current_price) == 0

\* Line 294: cost = shares * current_price.
Cost(shares, current_price) == shares * current_price

\* The bug of closing an open position on a further BUY signal.
SellCond_on_buy(signal_info, symbol, pos) ==
    /\ ~BuyCond(signal_info, symbol, pos)
    /\ signal_info.signal \in {"BUY", "SELL"}
    /\ symbol \in DOMAIN pos

\* Line 310: the SELL branch is taken (an elif of the BUY branch).
SellCond(signal_info, symbol, pos) ==
    /\ ~BuyCond(signal_info, symbol, pos)
    /\ signal_info.signal = "SELL"
    /\ symbol \in DOMAIN pos

\* The bug of selling at the entry price.
Proceeds_at_entry(position, current_price) == position.shares * position.entry_price

\* Line 313: proceeds = position['shares'] * current_price.
Proceeds(position, current_price) == position.shares * current_price

\* Lines 315 and 332: (current_price - entry_price) / entry_price.
UnrealizedReturn(position, current_price) ==
    Rat(current_price - position.entry_price, position.entry_price)

\* Lines 301-308 and 317-324: a trade record.
TradeRecord(date, symbol, action, shares, price, confidence) ==
    [date       |-> date,
     symbol     |-> symbol,
     action     |-> action,
     shares     |-> shares,
     price      |-> price,
     confidence |-> confidence]

\* The bug of buying whatever the share count.
EnoughShares_any(shares) == TRUE

\* Line 293: if shares > 0.
EnoughShares(shares) == shares > 0

\* Lines 276-332: the body of the symbol loop for symbols[si] on all_dates[di].
ProcessSymbol ==
    /\ phase = "loop"
    /\ di <= Len(all_dates)
    /\ si <= Len(symbols)
    /\ LET symbol == symbols[si]
           date   == all_dates[di]
       IN  IF ~HasBar(data_dict, symbol, date)
           THEN \* continue
                /\ si' = si + 1
                /\ UNCHANGED <<phase, current_capital, positions, results, daily_returns>>
           ELSE IF ~HasRow(data_dict, symbol, date)
           THEN \* line 284 raises: the call ends with the exception
                /\ phase' = "raised"
                /\ UNCHANGED <<si, current_capital, positions, results, daily_returns>>
           ELSE
             LET current_price == data_dict[symbol][date]
                 signal_info   == StrategySignal(symbol, date)
                 shares        == BuyShares(current_capital, signal_info.confidence,
                                            current_price)
                 buy  == BuyCond(signal_info, symbol, positions) /\ EnoughShares(shares)
                 sell == SellCond(signal_info, symbol, positions)
                 position == positions[symbol]
                 pos1 == IF buy
                         THEN DictSet(positions, symbol,
                                      [shares      |-> shares,
                                       entry_price |-> current_price,
                                       entry_date  |-> date])
                         ELSE IF sell THEN DictDel(positions, symbol)
                         ELSE positions
                 dr1  == IF sell
                         THEN RatAdd(daily_returns,
                                     UnrealizedReturn(position, current_price))
                         ELSE daily_returns
             IN  /\ si' = si + 1
                 /\ UNCHANGED phase
                 /\ positions' = pos1
                 /\ current_capital' =
                        IF buy THEN current_capital - Cost(shares, current_price)
                        ELSE IF sell THEN current_capital + Proceeds(position, current_price)
                        ELSE current_capital
                 /\ results' =
                        IF buy
                        THEN [results EXCEPT !.trades = Append(@,
                                 TradeRecord(date, symbol, "BUY", shares, current_price,
                                             signal_info.confidence))]
                        ELSE IF sell
                        THEN [results EXCEPT !.trades = Append(@,
                                 TradeRecord(date, symbol, "SELL", position.shares,
                                             current_price, signal_info.confidence))]
                        ELSE results
                 /\ daily_returns' =
                        IF symbol \in DOMAIN pos1
                        THEN RatAdd(dr1, UnrealizedReturn(pos1[symbol], current_price))
                        ELSE dr1
    /\ UNCHANGED <<inputs, budget, symbols, data_dict, all_dates, di, returned>>

\* The bug of valuing a position without a bar at its entry price.
total_position_value_entry(pos, date) ==
    LET RECURSIVE Sum(_)
        Sum(S) == IF S = {} THEN 0
                  ELSE LET sym == CHOOSE x \in S : TRUE
                       IN  pos[sym].shares
                             * (IF date \in DOMAIN data_dict[sym]
                                THEN data_dict[sym][date]
                                ELSE pos[sym].entry_price)
                           + Sum(S \ {sym})
    IN  Sum(DOMAIN pos)

\* Lines 335-337: the mark-to-market sum over the open positions with a bar.
total_position_value(pos, date) ==
    LET priced == {sym \in DOMAIN pos : date \in DOMAIN data_dict[sym]}
        RECURSIVE Sum(_)
        Sum(S) == IF S = {} THEN 0
                  ELSE LET sym == CHOOSE x \in S : TRUE
                       IN  pos[sym].shares * data_dict[sym][date] + Sum(S \ {sym})
    IN  Sum(priced)

\* Lines 334-343: after the symbol loop of a date, append the date's entries.
EndOfDate ==
    /\ phase = "loop"
    /\ di <= Len(all_dates)
    /\ si > Len(symbols)
    /\ LET date == all_dates[di]
           portfolio_value == current_capital + total_position_value(positions, date)
           pv == Append(results.portfolio_value, portfolio_value)
       IN  results' = [results EXCEPT
                          !.portfolio_value = pv,
                          !.returns = Append(@,
                              IF Len(pv) > 1
                              THEN Rat(portfolio_value - pv[Len(pv) - 1], pv[Len(pv) - 1])
                              ELSE RatZero),
                          !.daily_returns = Append(@, daily_returns),
                          !.dates = Append(@, date)]
    /\ di' = di + 1
    /\ si' = 1
    /\ daily_returns' = RatZero
    /\ UNCHANGED <<inputs, budget, phase, symbols, data_dict, all_dates,
                   current_capital, positions, returned>>

\* Lines 345-346: results['positions'] = positions; return results.
Return ==
    /\ phase = "loop"
    /\ di > Len(all_dates)
    /\ results' = [results EXCEPT !.positions = positions]
    /\ returned' = Append(returned, [symbols |-> symbols, result |-> results'])
    /\ phase' = "idle"
    /\ UNCHANGED <<inputs, budget, symbols, data_dict, all_dates, di, si,
                   daily_returns, current_capital, positions>>

Next ==
    \/ \E syms \in SymbolLists : RunBacktest(syms)
    \/ ProcessSymbol
    \/ EndOfDate
    \/ Return

Spec == Init /\ [][Next]_vars

SpecAnyStrategy == InitAnyStrategy /\ [][Next]_vars


(***************************************************************************)
(* BacktestingEngine.calculate_metrics.  The mapping's keys are the        *)
(* source's, in English: total_return, annual_return, volatility,          *)
(* sharpe_ratio, max_drawdown, win_rate, trade_count.  The powers and      *)
(* roots are not computed: annual_return is kept as its base and its       *)
(* days, volatility as "nan" (the std of no returns), "zero" (all returns  *)
(* equal) or "positive", and sharpe_ratio as "zero" or "quotient".         *)
(***************************************************************************)
\* Bound: the longest equity curve handed to calculate_metrics.
MaxCurveLen == 4

\* The equity values of those curves.
EquityValues == {90000, 95000, 100000, 120000}

RatLess(p, q) == p[1] * q[2] < q[1] * p[2]

\* results['returns'] as run_backtest builds it for an equity curve.
ReturnsOf(curve) ==
    [k \in 1..Len(curve) |->
        IF k = 1 THEN RatZero ELSE Rat(curve[k] - curve[k - 1], curve[k - 1])]

\* The results dicts handed to calculate_metrics: the error result, and one per
\* equity curve of up to MaxCurveLen values.
MetricsArgs ==
    {[error |-> "no data"]}
        \cup {[portfolio_value |-> c, returns |-> ReturnsOf(c), trades |-> <<>>] :
                 c \in UNION {[1..n -> EquityValues] : n \in 0..MaxCurveLen}}

\* The bug of also refusing a curve of the seed alone.
NoCurve_below_two(res) ==
    \/ "portfolio_value" \notin DOMAIN res
    \/ Len(res.portfolio_value) < 2

\* Line 350: not results.get('portfolio_value').
NoCurve(res) ==
    \/ "portfolio_value" \notin DOMAIN res
    \/ res.portfolio_value = <<>>

\* The bug of measuring every fall from the seed.
Peak_seed(pv, k) == pv[1]

\* Line 371: np.maximum.accumulate(portfolio_values) at index k.
RECURSIVE Peak(_, _)
Peak(pv, k) ==
    IF k = 1 THEN pv[1]
    ELSE LET before == Peak(pv, k - 1)
         IN  IF pv[k] > before THEN pv[k] ELSE before

\* Lines 372-373: the least of (portfolio_values - peak) / peak over 1..k.
RECURSIVE MinDrawdown(_, _)
MinDrawdown(pv, k) ==
    LET here == Rat(pv[k] - Peak(pv, k), Peak(pv, k))
    IN  IF k = 1 THEN here
        ELSE LET before == MinDrawdown(pv, k - 1)
             IN  IF RatLess(here, before) THEN here ELSE before

\* Line 364: np.std(returns) * np.sqrt(252), by its sign.  The std of no returns
\* is NaN; that of returns all equal is taken as exactly 0, which floats give for
\* a single return and for returns all 0, the only such series of MetricsArgs.
Volatility(returns) ==
    IF returns = <<>> THEN "nan"
    ELSE IF \A i, j \in DOMAIN returns : returns[i] = returns[j] THEN "zero"
    ELSE "positive"

\* The bug of dividing by the volatility whatever it is.
SharpeRatio_unguarded(volatility) == "quotient"

\* Line 368: the quotient if volatility > 0 (NaN > 0 is False), else 0.
SharpeRatio(volatility) == IF volatility = "positive" THEN "quotient" ELSE "zero"

\* Lines 376-377: the share of positive returns, 0 if there are none at all.
WinRate(returns) ==
    LET winning_trades == Cardinality({k \in DOMAIN returns : returns[k][1] > 0})
    IN  IF Len(returns) > 0 THEN Rat(winning_trades, Len(returns)) ELSE RatZero

\* Lines 348-387.
calculate_metrics(res) ==
    IF NoCurve(res) THEN EmptyDict
    ELSE
      LET portfolio_values == res.portfolio_value
          returns      == IF res.returns = <<>> THEN <<>> ELSE Tail(res.returns)
          last         == portfolio_values[Len(portfolio_values)]
          total_return == Rat(last - portfolio_values[1], portfolio_values[1])
          days         == Len(portfolio_values)
          volatility   == Volatility(returns)
      IN  [total_return  |-> total_return,
           annual_return |-> [base |-> RatAdd(<<1, 1>>, total_return), days |-> days],
           volatility    |-> volatility,
           sharpe_ratio  |-> SharpeRatio(volatility),
           max_drawdown  |-> MinDrawdown(portfolio_values, Len(portfolio_values)),
           win_rate      |-> WinRate(returns),
           trade_count   |-> IF "trades" \in DOMAIN res THEN Len(res.trades) ELSE 0]

\* A caller hands a results dict to calculate_metrics.
InitMetrics ==
    /\ raw_data = [s \in Symbols |-> EmptyDict]
    /\ strategy = [kind |-> "bazi", table |-> EmptyDict]
    /\ budget = 0
    /\ InitRun
    /\ metrics_arg \in MetricsArgs
    /\ metrics_done = FALSE
    /\ metrics = EmptyDict
    /\ NoCall

CalculateMetrics ==
    /\ ~metrics_done
    /\ metrics_arg # EmptyDict
    /\ metrics' = calculate_metrics(metrics_arg)
    /\ metrics_done' = TRUE
    /\ UNCHANGED <<raw_data, strategy, metrics_arg, run_vars, call, ret>>

NextMetrics == CalculateMetrics

SpecMetrics == InitMetrics /\ [][NextMetrics]_vars

(***************************************************************************)
(* Calls of the strategy's functions on their own: BaziCalculator's        *)
(* calculate_bazi, analyze_wuxing_strength and get_wuxing_relationship,    *)
(* and TradingStrategy.get_trading_signal, whole, with the element counts  *)
(* handed in (a bazi_calc that returns them), and from the score on.       *)
(***************************************************************************)
\* Bounds: the largest count in a current (reference) vector handed in and the
\* largest forced score.  The symbol (comparison) vector's counts are 0 or 1:
\* the scoring reads them only through count > 0 and current > count.
MaxCurrentCount == 2

MaxForcedScore == 8

SymbolCounts == {0, 1}

\* The years of the datetimes analysed at every hour, and of the midnights a
\* signal is asked for: every offset of the 60-year cycle, years before
\* base_year, leap years and the two century years of offset 0.
BaziYears == {1899, 1900, 1984, 2046}

SignalYears == (1899..1960) \cup {1986, 2046}

Datetimes(years, hours) ==
    {[year |-> y, month |-> m, day |-> d, hour |-> h] :
        y \in years, m \in 1..12, d \in 1..31, h \in hours}

Timestamps(years, hours) ==
    {ts \in Datetimes(years, hours) : ts.day <= DaysInMonth(ts.year, ts.month)}

CountVectors(counts) == [Wuxing -> counts]

\* The calls made: each function on each of its bounded arguments.
AnalyzeCalls ==
    {[fn |-> "analyze_wuxing_strength", date |-> ts] :
        ts \in Timestamps(BaziYears, 0..23)}

RelationshipCalls ==
    {[fn |-> "get_wuxing_relationship", wuxing1 |-> a, wuxing2 |-> b] :
        a \in Wuxing, b \in Wuxing}

\* The first call for a date is for symbol A; TradingSignalAgain follows it with
\* a call for each symbol.
SignalCalls ==
    {[fn |-> "get_trading_signal", symbol |-> "A", date |-> ts] :
        ts \in Timestamps(SignalYears, {0})}

EvaluateCalls ==
    {[fn |-> "evaluate", current_wuxing |-> c, symbol_wuxing |-> s] :
        c \in CountVectors(0..MaxCurrentCount), s \in CountVectors(SymbolCounts)}

DecideCalls ==
    {[fn |-> "decide", signal_strength |-> k] :
        k \in (-MaxForcedScore)..MaxForcedScore}

InitCalls ==
    /\ raw_data = [s \in Symbols |-> EmptyDict]
    /\ strategy = [kind |-> "bazi", table |-> EmptyDict]
    /\ budget = 0
    /\ InitRun
    /\ NoMetrics
    /\ \/ call \in AnalyzeCalls
       \/ call \in RelationshipCalls
       \/ call \in SignalCalls
       \/ call \in EvaluateCalls
       \/ call \in DecideCalls
    /\ ret = [done |-> FALSE]

Returns(value) ==
    /\ ret' = [done |-> TRUE, value |-> value]
    /\ UNCHANGED <<raw_data, strategy, metrics_arg, metrics_done, metrics, run_vars>>

\* analyze_wuxing_strength(calculate_bazi(date)), with the indices used.
Analyze ==
    /\ call.fn = "analyze_wuxing_strength"
    /\ ~ret.done
    /\ Returns([indices |-> bazi_indices(call.date),
                bazi    |-> calculate_bazi(call.date),
                wuxing  |-> analyze_wuxing_strength(calculate_bazi(call.date))])
    /\ UNCHANGED call

\* get_wuxing_relationship(wuxing1, wuxing2) and the same with the arguments
\* exchanged.
Relationship ==
    /\ call.fn = "get_wuxing_relationship"
    /\ ~ret.done
    /\ Returns([forward  |-> get_wuxing_relationship(call.wuxing1, call.wuxing2),
                backward |-> get_wuxing_relationship(call.wuxing2, call.wuxing1)])
    /\ UNCHANGED call

\* get_trading_signal(symbol, date, price_data).
TradingSignal ==
    /\ call.fn = "get_trading_signal"
    /\ ~ret.done
    /\ Returns(get_trading_signal(call.symbol, call.date))
    /\ UNCHANGED call

\* A second call of get_trading_signal for the same date, for any symbol; the
\* earlier return value is kept beside the new one.
TradingSignalAgain(symbol) ==
    /\ call.fn = "get_trading_signal"
    /\ ret.done
    /\ "before" \notin DOMAIN ret
    /\ call' = [call EXCEPT !.symbol = symbol]
    /\ ret' = [done   |-> TRUE,
               value  |-> get_trading_signal(symbol, call.date),
               first  |-> call.symbol,
               before |-> ret.value]
    /\ UNCHANGED <<raw_data, strategy, metrics_arg, metrics_done, metrics, run_vars>>

\* Lines 145-181 on the two vectors handed in.
Scoring ==
    /\ call.fn = "evaluate"
    /\ ~ret.done
    /\ Returns(Evaluate(call.current_wuxing, call.symbol_wuxing))
    /\ UNCHANGED call

\* The same once more, the symbol vector's count of target, which was 0, now k;
\* the earlier return value is kept beside the new one.
RaiseSymbolCount(target, k) ==
    /\ call.fn = "evaluate"
    /\ ret.done
    /\ call.symbol_wuxing[target] = 0
    /\ call' = [call EXCEPT !.symbol_wuxing[target] = k]
    /\ ret' = [done   |-> TRUE,
               value  |-> Evaluate(call'.current_wuxing, call'.symbol_wuxing),
               target |-> target,
               before |-> ret.value]
    /\ UNCHANGED <<raw_data, strategy, metrics_arg, metrics_done, metrics, run_vars>>

\* Lines 162-171 on the score handed in.
Decision ==
    /\ call.fn = "decide"
    /\ ~ret.done
    /\ Returns(Decide(call.signal_strength))
    /\ UNCHANGED call

NextCalls ==
    \/ Analyze
    \/ Relationship
    \/ TradingSignal
    \/ \E symbol \in Symbols : TradingSignalAgain(symbol)
    \/ Scoring
    \/ \E target \in Wuxing, k \in SymbolCounts \ {0} : RaiseSymbolCount(target, k)
    \/ Decision

SpecCalls == InitCalls /\ [][NextCalls]_vars

\* The vectors analyze_wuxing_strength can return for a whole bazi: five counts
\* of the eight symbols.
VectorSum(v) == v["mu"] + v["huo"] + v["tu"] + v["jin"] + v["shui"]

BaziSize == Cardinality(TgKeys) + Cardinality(DzKeys)

StrengthVectors ==
    UNION {UNION {UNION {
        {[mu |-> a, huo |-> b, tu |-> c, jin |-> d, shui |-> BaziSize - a - b - c - d] :
            d \in 0..(BaziSize - a - b - c)} :
          c \in 0..(BaziSize - a - b)} :
        b \in 0..(BaziSize - a)} :
      a \in 0..BaziSize}

\* get_trading_signal on every two such vectors.
InitStrengths ==
    /\ raw_data = [s \in Symbols |-> EmptyDict]
    /\ strategy = [kind |-> "bazi", table |-> EmptyDict]
    /\ budget = 0
    /\ InitRun
    /\ NoMetrics
    /\ call \in {[fn |-> "evaluate", current_wuxing |-> c, symbol_wuxing |-> s] :
                    c \in StrengthVectors, s \in StrengthVectors}
    /\ ret = [done |-> FALSE]

NextStrengths == Scoring

SpecStrengths == InitStrengths /\ [][NextStrengths]_vars

(***************************************************************************)
(* The step of the symbol loop the claims speak of, read off the state.    *)
(***************************************************************************)
\* The symbol loop is about to process symbols[si] on all_dates[di].
AtSymbol == phase = "loop" /\ di <= Len(all_dates) /\ si <= Len(symbols)

CurSymbol == symbols[si]

CurDate == all_dates[di]

\* The symbol has a price bar on the date, by the series handed in.
CurHasBar == CurDate \in DOMAIN raw_data[CurSymbol]

CurPrice == raw_data[CurSymbol][CurDate]

CurSignal == StrategySignal(CurSymbol, CurDate)

\* One iteration of the symbol loop is taken.
SymbolStep == AtSymbol /\ si' = si + 1

\* floor(cash * confidence * 0.10 / close), the confidence in tenths.
FloorShares == (current_capital * CurSignal.confidence) \div (100 * CurPrice)

\* The symbol just processed, and the trade log's last record.
JustProcessed == symbols[si - 1]

LastTrade == results.trades[Len(results.trades)]

\* C1: a BUY signal for a symbol with a bar, no open position and
\* shares = floor(cash * confidence * 0.10 / close) > 0 debits cash by
\* shares * close, opens the position (shares, close, date) for that symbol,
\* appends one BUY record with those shares, price and confidence, and changes
\* nothing else (the other positions, the equity curve, the returns).
C1_BuyOpensPosition ==
    [][(/\ SymbolStep
        /\ CurHasBar
        /\ CurSignal.signal = "BUY"
        /\ CurSymbol \notin DOMAIN positions
        /\ FloorShares > 0)
       => /\ current_capital' = current_capital - FloorShares * CurPrice
          /\ DOMAIN positions' = DOMAIN positions \cup {CurSymbol}
          /\ positions'[CurSymbol] = [shares      |-> FloorShares,
                                      entry_price |-> CurPrice,
                                      entry_date  |-> CurDate]
          /\ \A s \in DOMAIN positions : positions'[s] = positions[s]
          /\ results' = [results EXCEPT !.trades = Append(@,
                            [date       |-> CurDate,
                             symbol     |-> CurSymbol,
                             action     |-> "BUY",
                             shares     |-> FloorShares,
                             price      |-> CurPrice,
                             confidence |-> CurSignal.confidence])]
          /\ daily_returns' = daily_returns]_vars

\* A BUY has just been executed with cash left over from earlier trades.
C1_Witness ==
    /\ phase = "loop"
    /\ si > 1
    /\ Len(results.trades) >= 2
    /\ LastTrade.action = "BUY"
    /\ LastTrade.symbol = JustProcessed
    /\ LastTrade.date = all_dates[di]
    /\ JustProcessed \in DOMAIN positions
    /\ positions[JustProcessed].shares = LastTrade.shares
    /\ positions[JustProcessed].entry_date = all_dates[di]

\* C2: a SELL signal for a symbol with a bar and an open position credits cash
\* with position.shares * close, appends one SELL record carrying the position's
\* share count and removes the position; a SELL signal for a symbol with no open
\* position changes nothing.
C2_SellClosesPosition ==
    [][(SymbolStep /\ CurHasBar /\ CurSignal.signal = "SELL")
       => IF CurSymbol \in DOMAIN positions
          THEN /\ current_capital' =
                     current_capital + positions[CurSymbol].shares * CurPrice
               /\ results' = [results EXCEPT !.trades = Append(@,
                                 [date       |-> CurDate,
                                  symbol     |-> CurSymbol,
                                  action     |-> "SELL",
                                  shares     |-> positions[CurSymbol].shares,
                                  price      |-> CurPrice,
                                  confidence |-> CurSignal.confidence])]
               /\ DOMAIN positions' = DOMAIN positions \ {CurSymbol}
               /\ \A s \in DOMAIN positions' : positions'[s] = positions[s]
          ELSE UNCHANGED <<current_capital, positions, results, daily_returns>>]_vars

\* A SELL has just closed a position at a price other than its entry price.
C2_Witness ==
    /\ phase = "loop"
    /\ si > 1
    /\ Len(results.trades) >= 2
    /\ LastTrade.action = "SELL"
    /\ LastTrade.symbol = JustProcessed
    /\ LastTrade.date = all_dates[di]
    /\ JustProcessed \notin DOMAIN positions
    /\ \E k \in 1..(Len(results.trades) - 1) :
          /\ results.trades[k].symbol = JustProcessed
          /\ results.trades[k].action = "BUY"
          /\ results.trades[k].shares = LastTrade.shares
          /\ results.trades[k].price # LastTrade.price

\* C5: on a date where a symbol has no price bar the symbol loop passes over it:
\* the step is taken (no error), and the positions, the trade log and the rest of
\* the results, and cash are unchanged.
C5_NoBarNoDecision ==
    [][(AtSymbol /\ ~CurHasBar)
       => /\ phase' # "raised"
          /\ si' = si + 1
          /\ UNCHANGED <<current_capital, positions, results>>]_vars

\* A symbol with an open position has just been passed over for want of a bar,
\* its position still open.
C5_Witness ==
    /\ phase = "loop"
    /\ si > 1
    /\ di <= Len(all_dates)
    /\ all_dates[di] \notin DOMAIN raw_data[JustProcessed]
    /\ JustProcessed \in DOMAIN positions
    /\ positions[JustProcessed].entry_date # all_dates[di]


\* The trade records of one symbol, in log order.
TradesOf(s) == SelectSeq(results.trades, LAMBDA r : r.symbol = s)

\* A run is or was under way: the results dict exists.
HasResults == "trades" \in DOMAIN results

\* C3: at any point of a run a symbol's trade records alternate BUY, SELL, BUY,
\* ... starting with BUY, the symbol has an open position exactly when its last
\* record is a BUY, and that position is the one that BUY opened; and a BUY signal
\* for a symbol that has an open position changes neither the positions, nor cash,
\* nor the results (no pyramiding).
C3_OnePositionPerSymbol ==
    /\ [](HasResults =>
            \A s \in Symbols :
                LET log == TradesOf(s)
                IN  /\ \A k \in 1..Len(log) :
                          log[k].action = (IF k % 2 = 1 THEN "BUY" ELSE "SELL")
                    /\ (s \in DOMAIN positions) <=> (Len(log) % 2 = 1)
                    /\ s \in DOMAIN positions =>
                          /\ positions[s].shares = log[Len(log)].shares
                          /\ positions[s].entry_price = log[Len(log)].price
                          /\ positions[s].entry_date = log[Len(log)].date)
    /\ [][(/\ SymbolStep
           /\ CurHasBar
           /\ CurSignal.signal = "BUY"
           /\ CurSymbol \in DOMAIN positions)
          => UNCHANGED <<positions, current_capital, results>>]_vars

\* A BUY signal has just been passed over for a symbol whose position was opened
\* on an earlier date, while the other symbol's log reads BUY, SELL, BUY.
C3_Witness ==
    /\ phase = "loop"
    /\ si > 1
    /\ di <= Len(all_dates)
    /\ all_dates[di] \in DOMAIN raw_data[JustProcessed]
    /\ StrategySignal(JustProcessed, all_dates[di]).signal = "BUY"
    /\ JustProcessed \in DOMAIN positions
    /\ positions[JustProcessed].entry_date # all_dates[di]
    /\ \E s \in Symbols : Len(TradesOf(s)) = 3

\* The date loop has processed its symbols and appends the date's entries.
EndStep ==
    /\ phase = "loop"
    /\ di <= Len(all_dates)
    /\ si > Len(symbols)
    /\ di' = di + 1

\* shares * close summed over the open positions of the symbols in S that have a
\* bar on the date, by the series handed in.
RECURSIVE MarkedValue(_, _)
MarkedValue(S, date) ==
    IF S = {} THEN 0
    ELSE LET s == CHOOSE x \in S : TRUE
         IN  (IF s \in DOMAIN positions /\ date \in DOMAIN raw_data[s]
              THEN positions[s].shares * raw_data[s][date]
              ELSE 0) + MarkedValue(S \ {s}, date)

\* C4: the equity appended for a date is cash plus shares * close over exactly
\* the open positions whose symbol has a bar on that date; a position whose symbol
\* has no bar that date adds 0 and stays open.
C4_EquityMarksPricedPositions ==
    [][EndStep
       => /\ results'.portfolio_value =
                Append(results.portfolio_value,
                       current_capital + MarkedValue(Symbols, CurDate))
          /\ positions' = positions
          /\ current_capital' = current_capital]_vars

\* A date's equity has just been appended with one position priced and another,
\* without a bar that date, left out of the sum and still open.
C4_Witness ==
    /\ phase = "loop"
    /\ si = 1
    /\ di > 1
    /\ \E s \in DOMAIN positions :
          /\ all_dates[di - 1] \notin DOMAIN raw_data[s]
          /\ \E u \in DOMAIN positions :
                /\ all_dates[di - 1] \in DOMAIN raw_data[u]
                /\ results.portfolio_value[Len(results.portfolio_value)] =
                      current_capital + positions[u].shares * raw_data[u][all_dates[di - 1]]

\* Initial capital less the BUY amounts plus the SELL amounts of a trade log.
RECURSIVE CashFromLog(_)
CashFromLog(log) ==
    IF log = <<>> THEN initial_capital
    ELSE LET r == log[Len(log)]
             amount == r.shares * r.price
         IN  CashFromLog(SubSeq(log, 1, Len(log) - 1))
                + (IF r.action = "SELL" THEN amount ELSE 0)
                - (IF r.action = "BUY" THEN amount ELSE 0)

\* C6: cash is always the initial capital less shares * price over the BUY
\* records plus shares * price over the SELL records of the trade log; a log of
\* one BUY of n at p1 and one SELL of the same symbol at p2 leaves cash at
\* initial + n * (p2 - p1); and an equity entry appended while no position is open
\* equals cash.
C6_CashMatchesTradeLog ==
    HasResults =>
        /\ current_capital = CashFromLog(results.trades)
        /\ (/\ Len(results.trades) = 2
            /\ results.trades[1].action = "BUY"
            /\ results.trades[2].action = "SELL"
            /\ results.trades[1].symbol = results.trades[2].symbol)
           => current_capital = initial_capital
                  + results.trades[1].shares
                      * (results.trades[2].price - results.trades[1].price)
        /\ (phase = "loop" /\ si = 1 /\ di > 1 /\ positions = EmptyDict)
           => results.portfolio_value[Len(results.portfolio_value)] = current_capital

\* A BUY and a SELL at another price are in the log, nothing is open, and the
\* date's equity has been appended.
C6_Witness ==
    /\ phase = "loop"
    /\ si = 1
    /\ di > 1
    /\ positions = EmptyDict
    /\ Len(results.trades) = 2
    /\ results.trades[1].action = "BUY"
    /\ results.trades[2].action = "SELL"
    /\ results.trades[2].price # results.trades[1].price
    /\ current_capital # initial_capital


\* The symbols of a symbol list, and the distinct dates of their series.
Requested(syms) == {syms[i] : i \in 1..Len(syms)}

DistinctDates(syms) == UNION {DOMAIN raw_data[s] : s \in Requested(syms)}

\* C7: the equity curve a successful run returns has one entry per distinct date
\* of the requested symbols' series plus the seed: its length is the number of
\* distinct dates + 1 and its first entry is the initial capital; the processed
\* dates are those dates, each once, ascending; and the returns list and the
\* equity curve have the same length at every point of a run.
C7_EquityCurveLength ==
    /\ HasResults =>
          /\ Len(results.returns) = Len(results.portfolio_value)
          /\ results.portfolio_value[1] = initial_capital
    /\ \A i \in DOMAIN returned :
          LET r == returned[i].result
          IN  "portfolio_value" \in DOMAIN r =>
                 /\ Len(r.portfolio_value) =
                        Cardinality(DistinctDates(returned[i].symbols)) + 1
                 /\ r.portfolio_value[1] = initial_capital
                 /\ Len(r.returns) = Len(r.portfolio_value)
                 /\ {r.dates[k] : k \in DOMAIN r.dates} = DistinctDates(returned[i].symbols)
                 /\ \A k \in 1..(Len(r.dates) - 1) : DateLess(r.dates[k], r.dates[k + 1])

\* A run has returned a curve over three dates none of the series has in full.
C7_Witness ==
    /\ Len(returned) >= 1
    /\ "portfolio_value" \in DOMAIN returned[1].result
    /\ Len(returned[1].result.portfolio_value) = 4
    /\ \A s \in Symbols : Cardinality(DOMAIN raw_data[s]) = 2

\* C8: if no requested symbol has any price data (every series is empty),
\* run_backtest returns the error result, with no equity curve, trade log or
\* positions in it, never enters the date loop and raises nothing.
C8_NoDataIsAnError ==
    /\ \A i \in DOMAIN returned :
          (\A s \in Requested(returned[i].symbols) : raw_data[s] = EmptyDict)
             => DOMAIN returned[i].result = {"error"}
    /\ (\A s \in Symbols : raw_data[s] = EmptyDict)
          => /\ phase = "idle"
             /\ results = EmptyDict
             /\ positions = EmptyDict
             /\ current_capital = initial_capital

\* Two calls have returned with every series empty.
C8_Witness ==
    /\ Len(returned) = 2
    /\ \A s \in Symbols : raw_data[s] = EmptyDict
    /\ \A i \in DOMAIN returned : "error" \in DOMAIN returned[i].result

\* C10: two calls of run_backtest on the same engine with the same symbol list
\* (and the same series and initial capital) return the same equity curve, trade
\* log and positions; every call starts from the initial capital, no position
\* and an empty trade log.
C10_RunsAreIndependent ==
    /\ \A i, j \in DOMAIN returned :
          returned[i].symbols = returned[j].symbols
             => returned[i].result = returned[j].result
    /\ (phase = "loop" /\ di = 1 /\ si = 1)
          => /\ current_capital = initial_capital
             /\ positions = EmptyDict
             /\ results.trades = <<>>
             /\ results.portfolio_value = <<initial_capital>>

\* Two calls with the same symbol list have returned, each with trades made and
\* positions left open.
C10_Witness ==
    /\ Len(returned) = 2
    /\ returned[1].symbols = returned[2].symbols
    /\ "trades" \in DOMAIN returned[2].result
    /\ Len(returned[2].result.trades) = 2
    /\ DOMAIN returned[2].result.positions = Symbols


MetricsKeys ==
    {"total_return", "annual_return", "volatility", "sharpe_ratio", "max_drawdown",
     "win_rate", "trade_count"}

\* C9, as claimed: calculate_metrics returns the empty mapping whenever the
\* equity curve has fewer than 2 entries.
C9_EmptyBelowTwoEntries ==
    (/\ metrics_done
     /\ "portfolio_value" \in DOMAIN metrics_arg
     /\ Len(metrics_arg.portfolio_value) < 2)
    => metrics = EmptyDict

\* C9, amended: calculate_metrics returns the empty mapping exactly when the
\* results carry no equity curve or one of 0 entries; for a curve of 1 entry it
\* returns all seven statistics, with total return, max drawdown and win rate 0,
\* Sharpe ratio 0 and the volatility of no returns (NaN).
C9_EmptyOnlyWithoutCurve ==
    metrics_done =>
        /\ (metrics = EmptyDict) <=>
              \/ "portfolio_value" \notin DOMAIN metrics_arg
              \/ Len(metrics_arg.portfolio_value) = 0
        /\ metrics # EmptyDict => DOMAIN metrics = MetricsKeys
        /\ ("portfolio_value" \in DOMAIN metrics_arg
               /\ Len(metrics_arg.portfolio_value) = 1)
           => /\ metrics.total_return = RatZero
              /\ metrics.max_drawdown = RatZero
              /\ metrics.win_rate = RatZero
              /\ metrics.sharpe_ratio = "zero"
              /\ metrics.volatility = "nan"

\* calculate_metrics has returned the empty mapping for an equity curve of 0
\* entries.
C9_Witness ==
    /\ metrics_done
    /\ "portfolio_value" \in DOMAIN metrics_arg
    /\ metrics_arg.portfolio_value = <<>>
    /\ metrics = EmptyDict


\* The trade records of one symbol in a returned result, in log order.
ResultTradesOf(r, s) == SelectSeq(r.trades, LAMBDA x : x.symbol = s)

\* Two returned results agree on the equity curve, the final cash, and each
\* symbol's position and trade records.
SameOutcome(r1, r2) ==
    /\ r1.portfolio_value = r2.portfolio_value
    /\ CashFromLog(r1.trades) = CashFromLog(r2.trades)
    /\ r1.positions = r2.positions
    /\ \A s \in Symbols : ResultTradesOf(r1, s) = ResultTradesOf(r2, s)

\* The symbols that, in the run that returned r, met date d with a bar, a BUY
\* signal and no open position.
BuyCandidates(r, d) ==
    {s \in Symbols :
        /\ d \in DOMAIN raw_data[s]
        /\ StrategySignal(s, d).signal = "BUY"
        /\ Cardinality({k \in DOMAIN r.trades :
                           r.trades[k].symbol = s /\ DateLess(r.trades[k].date, d)}) % 2 = 0}

Succeeded(i) == "portfolio_value" \in DOMAIN returned[i].result

\* C11, as claimed: for every permutation of the symbol list run_backtest returns
\* the same equity curve, the same final cash, and for each symbol the same
\* position and the same trade records.
C11_OrderNeverMatters ==
    \A i, j \in DOMAIN returned :
        (Succeeded(i) /\ Succeeded(j))
           => SameOutcome(returned[i].result, returned[j].result)

\* C11, amended: the same, provided no date finds two symbols each with a bar, a
\* BUY signal and no open position (a BUY is sized from the cash the symbols
\* processed before it on that date have left).
C11_OrderMattersOnlyForSharedBuyDates ==
    \A i, j \in DOMAIN returned :
        (/\ Succeeded(i)
         /\ Succeeded(j)
         /\ \A d \in DateSet : Cardinality(BuyCandidates(returned[i].result, d)) <= 1)
           => SameOutcome(returned[i].result, returned[j].result)

\* Two calls with the symbol list in either order have returned, each symbol
\* bought on a date of its own, with the same outcome.
C11_Witness ==
    /\ Len(returned) = 2
    /\ returned[1].symbols # returned[2].symbols
    /\ Succeeded(1)
    /\ Succeeded(2)
    /\ Len(returned[1].result.trades) = 2
    /\ returned[1].result.trades[1].date # returned[1].result.trades[2].date
    /\ \A d \in DateSet : Cardinality(BuyCandidates(returned[1].result, d)) <= 1
    /\ SameOutcome(returned[1].result, returned[2].result)

\* s is an initial segment of t.
IsPrefix(s, t) == Len(s) <= Len(t) /\ SubSeq(t, 1, Len(s)) = s

StrictlyAscending(ds) == \A k \in 1..(Len(ds) - 1) : DateLess(ds[k], ds[k + 1])

\* C12: the dates of a run are processed in strictly ascending order, the trade
\* records' dates never decrease along the log, and every step of a run leaves
\* the trade records and the equity entries already written as they were: the
\* log, the equity curve and the date list only grow at the end.
C12_AscendingAppendOnly ==
    /\ [](HasResults =>
            /\ StrictlyAscending(all_dates)
            /\ results.dates = SubSeq(all_dates, 1, Len(results.dates))
            /\ \A k \in 1..(Len(results.trades) - 1) :
                  ~DateLess(results.trades[k + 1].date, results.trades[k].date))
    /\ [][phase = "loop" =>
            /\ IsPrefix(results.trades, results'.trades)
            /\ IsPrefix(results.portfolio_value, results'.portfolio_value)
            /\ IsPrefix(results.dates, results'.dates)]_vars

\* Three dates are processed and the log holds trades of two different dates.
C12_Witness ==
    /\ HasResults
    /\ Len(results.dates) = 3
    /\ Len(results.trades) >= 2
    /\ DateLess(results.trades[1].date, results.trades[Len(results.trades)].date)

(***************************************************************************)
(* The strategy's functions.                                               *)
(***************************************************************************)
Analyzed == call.fn = "analyze_wuxing_strength" /\ ret.done

\* C13: for every valid datetime, years before 1900 included, the eight indices
\* calculate_bazi computes are within the stem and branch lists, the pillars are
\* the stems and branches at those indices, and analyze_wuxing_strength of the
\* result is five non-negative counts, one per element, that add up to 8.
C13_EightSymbolsCounted ==
    Analyzed =>
        LET v == ret.value
        IN  /\ \A k \in TgKeys : v.indices[k] \in 0..(Len(tiangan) - 1)
            /\ \A k \in DzKeys : v.indices[k] \in 0..(Len(dizhi) - 1)
            /\ \A k \in TgKeys : v.bazi[k] = tiangan[v.indices[k] + 1]
            /\ \A k \in DzKeys : v.bazi[k] = dizhi[v.indices[k] + 1]
            /\ DOMAIN v.wuxing = Wuxing
            /\ \A w \in Wuxing : v.wuxing[w] \in Nat
            /\ v.wuxing["mu"] + v.wuxing["huo"] + v.wuxing["tu"]
                 + v.wuxing["jin"] + v.wuxing["shui"] = 8

\* The last hour of 1899 has been analysed: year offset 59, pillars gui-hai.
C13_Witness ==
    /\ Analyzed
    /\ call.date = [year |-> 1899, month |-> 12, day |-> 31, hour |-> 23]
    /\ ret.value.bazi.year_tg = "gui"
    /\ ret.value.bazi.year_dz = "hai"
    /\ ret.value.wuxing["shui"] >= 2

Related == call.fn = "get_wuxing_relationship" /\ ret.done

\* C14: get_wuxing_relationship(a, b) is "generates" exactly when that of (b, a) is
\* "generated by", "overcomes" exactly when that of (b, a) is "overcome by",
\* and that of (a, a) is "same".
C14_RelationAntisymmetric ==
    Related =>
        /\ (ret.value.forward = "sheng") <=> (ret.value.backward = "bei_sheng")
        /\ (ret.value.forward = "ke") <=> (ret.value.backward = "bei_ke")
        /\ (call.wuxing1 = call.wuxing2) => (ret.value.forward = "tong")

\* Water generates wood, wood is generated by water.
C14_Witness ==
    /\ Related
    /\ call.wuxing1 = "shui"
    /\ call.wuxing2 = "mu"
    /\ ret.value.forward = "sheng"
    /\ ret.value.backward = "bei_sheng"

InReason(reason, pair) == \E k \in DOMAIN reason : reason[k] = pair

\* The second evaluation has a generating pair (e, target), target being the
\* element whose count was raised from 0, that the first did not have.
PairAdded(e) ==
    /\ call.fn = "evaluate"
    /\ "before" \in DOMAIN ret
    /\ get_wuxing_relationship(e, ret.target) = "sheng"
    /\ call.current_wuxing[e] > call.symbol_wuxing[e]
    /\ call.symbol_wuxing[ret.target] > 0
    /\ InReason(ret.value.reason, <<e, ret.target>>)
    /\ ~InReason(ret.before.reason, <<e, ret.target>>)

\* C15: for every current vector and symbol vector, raising the symbol vector's
\* count of an element t from 0 so that a further generating pair (e, t)
\* qualifies never gives a lower score.
C15_ScoreMonotone ==
    \A e \in Wuxing : PairAdded(e) => ret.value.strength >= ret.before.strength

\* A pair was added and the raised element's own pair was lost for it: the score
\* stayed as it was.
C15_Witness ==
    /\ \E e \in Wuxing : PairAdded(e)
    /\ ret.value.strength = ret.before.strength
    /\ \E u \in Wuxing : /\ InReason(ret.before.reason, <<ret.target, u>>)
                         /\ ~InReason(ret.value.reason, <<ret.target, u>>)

\* The rule of section 4 on a score, the confidence in tenths.
DecisionRule(score, signal, confidence) ==
    /\ (signal = "BUY") <=> (score >= 3)
    /\ (signal = "SELL") <=> (score <= -3)
    /\ (signal = "HOLD") <=> (score > -3 /\ score < 3)
    /\ (signal = "HOLD") => (confidence = 5)
    /\ (signal # "HOLD" /\ Abs(score) < 5) => (5 * confidence = 10 * Abs(score))
    /\ (signal # "HOLD" /\ Abs(score) >= 5) => (confidence = 10)
    /\ confidence \in 0..10

\* C16: the signal is BUY exactly when the score is >= 3, with confidence
\* min(score / 5, 1.0); SELL exactly when the score is <= -3, with confidence
\* min(|score| / 5, 1.0); HOLD with confidence 0.5 otherwise; and the confidence
\* is within [0, 1].  For every score handed to the rule and every score the
\* scoring produces.
C16_DecisionRule ==
    /\ (call.fn = "decide" /\ ret.done)
          => DecisionRule(call.signal_strength, ret.value.signal, ret.value.confidence)
    /\ (call.fn \in {"evaluate", "get_trading_signal"} /\ ret.done)
          => DecisionRule(ret.value.strength, ret.value.signal, ret.value.confidence)

\* A score of exactly -3 gives SELL at confidence 0.6.
C16_Witness ==
    /\ call.fn = "decide"
    /\ ret.done
    /\ call.signal_strength = -3
    /\ ret.value.signal = "SELL"
    /\ ret.value.confidence = 6

\* C17: the score is never negative, for any pair of count vectors and for any
\* date, and get_trading_signal never returns SELL.
C17_NeverSell ==
    (call.fn \in {"evaluate", "get_trading_signal"} /\ ret.done)
        => /\ ret.value.strength >= 0
           /\ ret.value.signal # "SELL"

\* A date whose score is 0 although a stronger element overcomes one the symbol
\* vector has.
C17_Witness ==
    /\ call.fn = "get_trading_signal"
    /\ ret.done
    /\ ret.value.strength = 0
    /\ \E e \in Wuxing :
          /\ ret.value.current_wuxing[e] > ret.value.symbol_wuxing[e]
          /\ ret.value.symbol_wuxing[wuxing_shengke[e].ke] > 0

(***************************************************************************)
(* calculate_metrics: drawdown and the degenerate cases.                   *)
(***************************************************************************)
\* calculate_metrics has returned the statistics of an equity curve.
Measured == metrics_done /\ metrics # EmptyDict

RunningMax(pv, t) ==
    CHOOSE m \in {pv[s] : s \in 1..t} : \A s \in 1..t : pv[s] <= m

DrawdownAt(pv, t) == Rat(pv[t] - RunningMax(pv, t), RunningMax(pv, t))

ScenarioB == <<100000, 95000, 90000, 120000>>

\* C18: for an equity curve of two or more positive values the reported maximum
\* drawdown is the least over t of (equity_t - runningMax_t) / runningMax_t; it is
\* never positive, and it is 0 exactly when no entry is below an earlier one.
\* The curve [100000, 95000, 90000, 120000] gives -0.10.
C18_MaxDrawdown ==
    (Measured /\ Len(metrics_arg.portfolio_value) >= 2) =>
        LET pv == metrics_arg.portfolio_value
            md == metrics.max_drawdown
        IN  /\ \E t \in DOMAIN pv : md = DrawdownAt(pv, t)
            /\ \A t \in DOMAIN pv : ~RatLess(DrawdownAt(pv, t), md)
            /\ md[1] <= 0
            /\ md[2] > 0
            /\ (md[1] = 0) <=> (\A s, t \in DOMAIN pv : s < t => pv[s] <= pv[t])
            /\ (pv = ScenarioB) => (md = <<-1, 10>>)

C18_Witness ==
    /\ Measured
    /\ metrics_arg.portfolio_value = ScenarioB
    /\ metrics.max_drawdown = <<-1, 10>>

\* C19: calculate_metrics returns for every equity curve, degenerate or not:
\* whenever the volatility is not > 0 (a constant curve, a single period return,
\* or none, whose std is NaN) the Sharpe ratio is 0 whatever the annualized
\* return, and whenever there is no period return the win rate is 0.
C19_DegenerateMetrics ==
    /\ (metrics_done /\ ~NoCurve(metrics_arg)) => DOMAIN metrics = MetricsKeys
    /\ Measured =>
         LET pv == metrics_arg.portfolio_value
         IN  /\ (metrics.volatility # "positive") => (metrics.sharpe_ratio = "zero")
             /\ (\A s, t \in DOMAIN pv : pv[s] = pv[t])
                   => (metrics.volatility # "positive" /\ metrics.sharpe_ratio = "zero")
             /\ (Len(pv) = 1)
                   => (metrics.volatility = "nan" /\ metrics.win_rate = RatZero)

\* One period return of +20%: the volatility is 0, the annualized return is not,
\* the Sharpe ratio is 0.
C19_Witness ==
    /\ Measured
    /\ metrics_arg.portfolio_value = <<100000, 120000>>
    /\ metrics.volatility = "zero"
    /\ metrics.total_return = <<1, 5>>
    /\ metrics.sharpe_ratio = "zero"

(***************************************************************************)
(* run_backtest: a BUY that affords no share.                              *)
(***************************************************************************)
\* The symbol loop is at a BUY signal for a flat symbol with a bar whose close
\* is more than cash * confidence * 0.10 (the confidence in tenths).
BuyTooDear ==
    /\ CurHasBar
    /\ CurSignal.signal = "BUY"
    /\ CurSymbol \notin DOMAIN positions
    /\ current_capital * CurSignal.confidence < 100 * CurPrice

\* C20: a BUY whose share count comes to 0 (cash * confidence * 0.10 < close)
\* changes nothing: no position is opened, no trade is recorded, cash stays as
\* it is; hence every open position and every trade record holds a whole number
\* of shares that is at least 1.
C20_NoZeroShareBuy ==
    /\ [](/\ \A s \in DOMAIN positions : positions[s].shares \in Nat \ {0}
          /\ HasResults =>
               \A k \in DOMAIN results.trades : results.trades[k].shares \in Nat \ {0})
    /\ [][(SymbolStep /\ BuyTooDear) =>
            /\ FloorShares = 0
            /\ UNCHANGED <<positions, current_capital, results, daily_returns>>]_vars

\* A BUY at 7000 was just passed over for want of cash, the symbol still flat,
\* while the other symbol holds a position.
C20_Witness ==
    /\ phase = "loop"
    /\ di <= Len(all_dates)
    /\ si > 1
    /\ JustProcessed \notin DOMAIN positions
    /\ all_dates[di] \in DOMAIN raw_data[JustProcessed]
    /\ StrategySignal(JustProcessed, all_dates[di]).signal = "BUY"
    /\ current_capital * StrategySignal(JustProcessed, all_dates[di]).confidence
          < 100 * raw_data[JustProcessed][all_dates[di]]
    /\ DOMAIN positions # {}

(***************************************************************************)
(* The relation table.                                                     *)
(***************************************************************************)
RelationFields == {"sheng", "ke", "bei_sheng", "bei_ke"}

\* C21: get_wuxing_relationship is total on the five elements: it answers "same"
\* exactly when the two are equal, and for two different elements exactly one of
\* the four table entries of the first is the second and that relation is the
\* answer; "none" is never answered.
C21_RelationTotal ==
    Related =>
        /\ (ret.value.forward = "tong") <=> (call.wuxing1 = call.wuxing2)
        /\ ret.value.forward # "wu_none"
        /\ (call.wuxing1 # call.wuxing2) =>
              /\ ret.value.forward \in RelationFields
              /\ {f \in RelationFields : wuxing_shengke[call.wuxing1][f] = call.wuxing2}
                    = {ret.value.forward}

\* Wood against metal, the last branch of the chain: overcome by.
C21_Witness ==
    /\ Related
    /\ call.wuxing1 = "mu"
    /\ call.wuxing2 = "jin"
    /\ ret.value.forward = "bei_ke"

GenerationCycle == <<"mu", "huo", "tu", "jin", "shui">>

OvercomingCycle == <<"mu", "tu", "shui", "huo", "jin">>

\* The element after e in a cycle written as a sequence.
NextIn(cycle, e) ==
    LET k == CHOOSE i \in DOMAIN cycle : cycle[i] = e
    IN  cycle[(k % Len(cycle)) + 1]

\* C22: "generates" is the one cycle wood, fire, earth, metal, water, wood; what
\* an element overcomes is what the element it generates generates; and
\* "overcomes" is the one cycle wood, earth, water, fire, metal, wood.
C22_TwoCycles ==
    Related =>
        /\ (ret.value.forward = "sheng")
              <=> (call.wuxing2 = NextIn(GenerationCycle, call.wuxing1))
        /\ (ret.value.forward = "ke")
              <=> (call.wuxing2 = NextIn(OvercomingCycle, call.wuxing1))
        /\ wuxing_shengke[call.wuxing1].ke
              = wuxing_shengke[wuxing_shengke[call.wuxing1].sheng].sheng
        /\ NextIn(OvercomingCycle, call.wuxing1)
              = NextIn(GenerationCycle, NextIn(GenerationCycle, call.wuxing1))

\* Water overcomes fire: two steps on from water, round the end of the cycle.
C22_Witness ==
    /\ Related
    /\ call.wuxing1 = "shui"
    /\ call.wuxing2 = "huo"
    /\ ret.value.forward = "ke"
    /\ ret.value.backward = "bei_ke"

(***************************************************************************)
(* get_trading_signal by date.                                             *)
(***************************************************************************)
Signalled == call.fn = "get_trading_signal" /\ ret.done

NewYearsDay(date) == date.month = 1 /\ date.day = 1

C24_BuyReachable ==
    Signalled =>
        /\ ret.value.strength <= 3
        /\ (NewYearsDay(call.date) /\ (call.date.year - 1900) % 60 = 26) =>
              /\ ret.value.strength = 3
              /\ ret.value.signal = "BUY"
              /\ ret.value.confidence = 6

C24_Witness ==
    /\ Signalled
    /\ call.date = [year |-> 1986, month |-> 1, day |-> 1, hour |-> 0]
    /\ ret.value.strength = 3
    /\ ret.value.signal = "BUY"
    /\ ret.value.confidence = 6

(***************************************************************************)
(* run_backtest with the bazi strategy.                                    *)
(***************************************************************************)
\* The position a BUY record opened.
OpenedBy(r) == [shares |-> r.shares, entry_price |-> r.price, entry_date |-> r.date]

\* C25: with the bazi strategy run_backtest executes no SELL: the trade log holds
\* BUY records only, at most one per symbol; a position, once opened, stays as
\* it is through every later step of the run; and the positions returned are
\* those the BUY records opened, still open.
C25_NoSellExecuted ==
    /\ [](HasResults =>
            /\ \A k \in DOMAIN results.trades : results.trades[k].action = "BUY"
            /\ \A s \in Symbols : Len(TradesOf(s)) <= 1)
    /\ [](\A i \in DOMAIN returned :
            Succeeded(i) =>
               LET r == returned[i].result
               IN  /\ DOMAIN r.positions = {r.trades[k].symbol : k \in DOMAIN r.trades}
                   /\ \A k \in DOMAIN r.trades :
                         r.positions[r.trades[k].symbol] = OpenedBy(r.trades[k]))
    /\ [][phase = "loop" =>
            \A s \in DOMAIN positions :
               s \in DOMAIN positions' /\ positions'[s] = positions[s]]_vars

\* A run has returned in which A, bought on 1986-01-01, met the BUY signal of
\* 2046-01-01 with a bar and is returned still open as bought.
C25_Witness ==
    /\ Len(returned) >= 1
    /\ Succeeded(1)
    /\ D3 \in DOMAIN raw_data["A"]
    /\ "A" \in Requested(returned[1].symbols)
    /\ "A" \in DOMAIN returned[1].result.positions
    /\ returned[1].result.positions["A"].entry_date = D1
    /\ Len(ResultTradesOf(returned[1].result, "A")) = 1

\* The step of the symbol loop appends a BUY record.
BuyStep ==
    /\ SymbolStep
    /\ Len(results'.trades) = Len(results.trades) + 1
    /\ results'.trades[Len(results'.trades)].action = "BUY"

\* C26: every executed BUY costs at most confidence * 10% of the cash held just
\* before it (the confidence in tenths), so cash is strictly positive at every
\* point and every entry of the equity curve is strictly positive: the period
\* return never divides by zero.
C26_CashAndEquityPositive ==
    /\ [](/\ current_capital > 0
          /\ HasResults =>
               \A k \in DOMAIN results.portfolio_value : results.portfolio_value[k] > 0)
    /\ [][BuyStep =>
            /\ current_capital' < current_capital
            /\ 100 * (current_capital - current_capital')
                  <= CurSignal.confidence * current_capital]_vars

\* After a sale both symbols are bought again on one date, one of them at 7000,
\* and cash is still positive.
C26_Witness ==
    /\ HasResults
    /\ DOMAIN positions = Symbols
    /\ \E s \in Symbols : positions[s].entry_price = 7000
    /\ Len(results.trades) >= 4
    /\ current_capital > 0

\* get_trading_signal has been called twice for one date.
SignalledTwice == Signalled /\ "before" \in DOMAIN ret

TradesBefore(d) == SelectSeq(results.trades, LAMBDA r : DateLess(r.date, d))

SymbolTradesBefore(s, d) == SelectSeq(TradesBefore(d), LAMBDA r : r.symbol = s)

\* shares * close on d of the positions of the symbols in S that were open
\* before d and have a bar on d.
RECURSIVE CarriedValue(_, _)
CarriedValue(S, d) ==
    IF S = {} THEN 0
    ELSE LET s   == CHOOSE x \in S : TRUE
             log == SymbolTradesBefore(s, d)
         IN  (IF Len(log) % 2 = 1 /\ d \in DOMAIN raw_data[s]
              THEN log[Len(log)].shares * raw_data[s][d]
              ELSE 0) + CarriedValue(S \ {s}, d)

\* C28: the trades of a date do not change the equity recorded for it: the
\* entry appended for a date is the cash held before that date's trades plus
\* shares * close of the positions open before that date that have a bar on it;
\* so the equity curve equals the initial capital up to and including the date
\* of the first BUY.
C28_TradesKeepTheDaysEquity ==
    HasResults =>
        /\ \A k \in DOMAIN results.dates :
              results.portfolio_value[k + 1]
                 = CashFromLog(TradesBefore(results.dates[k]))
                     + CarriedValue(Symbols, results.dates[k])
        /\ \A k \in DOMAIN results.dates :
              (\A j \in DOMAIN results.trades :
                  ~DateLess(results.trades[j].date, results.dates[k]))
                 => results.portfolio_value[k + 1] = initial_capital

\* A BUY on the first date left that date's equity at the initial capital; the
\* next date's close moved it.
C28_Witness ==
    /\ HasResults
    /\ Len(results.dates) >= 2
    /\ results.trades # <<>>
    /\ results.trades[1].date = results.dates[1]
    /\ results.portfolio_value[2] = initial_capital
    /\ results.portfolio_value[3] # initial_capital

(***************************************************************************)
(* The score and its reasons.                                              *)
(***************************************************************************)
Evaluated == call.fn = "evaluate" /\ ret.done

\* C29: for two vectors that each add up to 8 the score is in 0..4, so a BUY
\* has confidence 0.6 or 0.8 and min(score / 5, 1.0) never reaches its cap.
C29_ScoreAtMostFour ==
    (/\ Evaluated
     /\ VectorSum(call.current_wuxing) = 8
     /\ VectorSum(call.symbol_wuxing) = 8) =>
        /\ ret.value.strength \in 0..4
        /\ (ret.value.signal = "BUY") => (ret.value.confidence \in {6, 8})
        /\ ret.value.confidence < 10

\* Four elements stronger, each generating one the symbol vector has: score 4,
\* BUY at 0.8.
C29_Witness ==
    /\ Evaluated
    /\ VectorSum(call.current_wuxing) = 8
    /\ VectorSum(call.symbol_wuxing) = 8
    /\ ret.value.strength = 4
    /\ ret.value.signal = "BUY"
    /\ ret.value.confidence = 8

\* The place of an element in the order wood, fire, earth, metal, water.
Place(e) == CHOOSE i \in DOMAIN WuxingOrder : WuxingOrder[i] = e

\* C30: in every result of get_trading_signal there are as many reasons as the
\* strength says; each names a pair (e, t) of its own such that e generates t,
\* the current count of e exceeds the symbol count of e and the symbol count of
\* t is positive; and the reasons come in the order wood, fire, earth, metal,
\* water of their first element.
C30_ReasonsMatchScore ==
    (call.fn \in {"evaluate", "get_trading_signal"} /\ ret.done) =>
        LET v == ret.value
        IN  /\ Len(v.reason) = v.strength
            /\ \A k \in DOMAIN v.reason :
                  /\ get_wuxing_relationship(v.reason[k][1], v.reason[k][2]) = "sheng"
                  /\ v.current_wuxing[v.reason[k][1]] > v.symbol_wuxing[v.reason[k][1]]
                  /\ v.symbol_wuxing[v.reason[k][2]] > 0
            /\ \A j, k \in DOMAIN v.reason :
                  j < k => /\ v.reason[j] # v.reason[k]
                           /\ Place(v.reason[j][1]) <= Place(v.reason[k][1])

\* 1986-01-01: wood generates fire, metal generates water, water generates
\* wood, in that order, for a strength of 3.
C30_Witness ==
    /\ Signalled
    /\ call.date = [year |-> 1986, month |-> 1, day |-> 1, hour |-> 0]
    /\ ret.value.strength = 3
    /\ ret.value.reason = <<<<"mu", "huo">>, <<"jin", "shui">>, <<"shui", "mu">>>>

=============================================================================
